---- MODULE Spec2Model ----
(***************************************************************************)
(* A model of the mayanfest block-storage layer:                           *)
(*   - Disk / Chunk / SharedObjectCache  (src/src/diskinterface.{hpp,cpp}) *)
(*   - DiskBitMap and its free-run search (src/src/diskinterface.{hpp,cpp})*)
(*   - INodeTable over its usage bitmap   (src/src/filesystem.hpp)         *)
(*   - INode and its read                (src/src/filesystem.hpp)         *)
(* Five specifications share the module: SpecDisk (threads checking chunks *)
(* out of one Disk), SpecBitmap (one DiskBitMap), SpecAlloc (two threads   *)
(* allocating from one DiskBitMap), SpecInode (one INodeTable) and         *)
(* SpecNode (reads of one INode).                                          *)
(***************************************************************************)
EXTENDS Integers, Sequences, FiniteSets, TLC

(* ------------------------------ bounds --------------------------------- *)
NThreads == 2        \* threads calling into the Disk
ChunkCount == 1      \* Disk::_size_chunks of the modelled Disk
ChunkSize == 1       \* Disk::_chunk_size of the modelled Disk
MaxBits == 10        \* largest size_in_bits of the modelled DiskBitMap
MaxLen == 11         \* largest length passed to find_unset_bits
MaxChunkSize == 4    \* largest chunk size a DiskBitMap is laid out for
MaxKeys == 18        \* keys put into the SharedObjectCache of SpecCache
MaxUID == 2          \* largest INode::UID of a record passed to set_inode
MaxFileChunks == 10  \* largest file, in chunks, of the modelled INode
InodeChunkSize == 128        \* chunk size of the Disk under the INodeTable
InodeTableSizeChunks == 5    \* SuperBlock::inode_table_size_chunks
InodeTableOffset == 1        \* SuperBlock::inode_table_offset

(* ------------------------- program constants --------------------------- *)
SweepFloor == 16     \* SharedObjectCache::size_next_sweep
SizeofINode == 128   \* sizeof(INode): 14 uint64_t, a bitset<11>, a pointer

Threads == 1..NThreads
\* the byte values SpecDisk tells apart
Byte == 0..1
\* identities of Chunk objects.  In SpecDisk a thread holds one handle at a
\* time, so every object is held by, or being destroyed by, a thread of its own
ObjIds == 1..NThreads
SizeBytes == ChunkCount * ChunkSize
ChunkOffs == 0..(ChunkSize - 1)
\* indices a caller may pass to get_chunk: valid, == chunk_count, beyond
ReqIdx == 0..(ChunkCount + 1)
\* keys the cache can come to hold (get_chunk lets idx == chunk_count pass)
Keys == 0..ChunkCount

Absent == 0          \* no map entry for the key
Expired == -1        \* a weak_ptr whose object has no owner left
NoObj == [idx |-> -1]

VARIABLES
  data,             \* Disk::data, the size_bytes() bytes the chunks live in
  chunk,            \* the Chunk objects that exist: id -> [idx, data, refs];
                    \* refs is the use count of its shared_ptr, and an
                    \* object with refs = 0 is inside Chunk::~Chunk, run by
                    \* the thread that dropped the last handle
  chunk_cache,      \* Disk::chunk_cache.map: key -> object id/Absent/Expired
  size_next_sweep,  \* Disk::chunk_cache.size_next_sweep
  alive,            \* the Disk object has not been destroyed
  res,              \* outcome of the last get_chunk / try_close call
  \* ---- one DiskBitMap (SpecBitmap, SpecAlloc)
  size_in_bits,     \* DiskBitMap::size_in_bits
  chunks,           \* DiskBitMap::chunks: the bytes of the backing chunks
  retval,           \* the BitRange the last find_unset_bits call returned
  length,           \* the length that call was given
  \* ---- two allocating threads (SpecAlloc)
  pc,               \* pc[t]: where thread t is in find-then-mark
  range,            \* range[t]: the BitRange t's find_unset_bits returned
  owned,            \* owned[t]: the bit indices t has allocated
  \* ---- one INodeTable (SpecInode); size_in_bits is used_inodes->size_in_bits
  idisk,            \* the bytes of the chunks of the Disk under the table
  inode_count,      \* INodeTable::inode_count
  iret,             \* the last INodeTable call: [op, idx, res, rec]; rec is
                    \* the record set_inode was given or get_inode returned
  lastop,           \* lastop[idx]: the last of format/set/free that hit idx
  freed,            \* the index free_inode released since the last allocation
  \* ---- one INode (SpecNode)
  node,             \* the INode: [file_size, direct_addresses,
                    \* indirect_addresses, double_indirect_addresses]
  nret              \* the last INode::read call: [off, n, tier, ret]

diskVars == <<data, chunk, chunk_cache, size_next_sweep, alive, res>>
bmVars == <<size_in_bits, chunks, retval, length>>
allocVars == <<pc, range, owned>>
inodeVars == <<idisk, inode_count, iret, lastop, freed>>
nodeVars == <<node, nret>>

vars == <<diskVars, bmVars, allocVars, inodeVars, nodeVars>>

NoRange == [start_idx |-> -1, bit_count |-> -1]

\* the values the variables of a component have while it is not in use
IdleDisk ==
  /\ data = <<>> /\ chunk = <<>>
  /\ chunk_cache = <<>> /\ size_next_sweep = 0 /\ alive = FALSE
  /\ res = "none"
IdleBitmap ==
  /\ size_in_bits = 0 /\ chunks = <<>> /\ retval = NoRange /\ length = -1
IdleAlloc ==
  /\ pc = <<>> /\ range = <<>> /\ owned = <<>>
NoRec == <<>>       \* no inode record passed or returned
NoCall == [op |-> "none", idx |-> -1, res |-> "none", rec |-> NoRec]
IdleInode ==
  /\ idisk = <<>> /\ inode_count = 0 /\ iret = NoCall /\ lastop = <<>>
  /\ freed = -1
NoRead == [off |-> -1, n |-> -1, tier |-> "none", ret |-> -1]
IdleNode ==
  /\ node = <<>> /\ nret = NoRead

(* ----------------------- SharedObjectCache<K,V> ------------------------ *)
\* map.size()
CacheSize(m) == Cardinality({k \in DOMAIN m : m[k] # Absent})

\* a sweep loop that erases live entries as well
EraseAll(m) == [k \in DOMAIN m |-> Absent]

\* the loop of sweep: erase every expired entry, keep the others
EraseExpired(m) == [k \in DOMAIN m |-> IF m[k] = Expired THEN Absent ELSE m[k]]

\* a sweep that runs whatever the size of the map
SweepAlways(force, m, thr) ==
  LET m2 == EraseExpired(m)
  IN [map |-> m2,
      thr |-> IF CacheSize(m2) < SweepFloor THEN SweepFloor ELSE CacheSize(m2)]

\* SharedObjectCache::sweep(force) -> the map and threshold it leaves
Sweep(force, m, thr) ==
  IF ~force /\ CacheSize(m) < thr
    THEN [map |-> m, thr |-> thr]
    ELSE LET m2 == EraseExpired(m)
         IN [map |-> m2,
             thr |-> IF CacheSize(m2) < SweepFloor THEN SweepFloor
                                                   ELSE CacheSize(m2)]

\* SharedObjectCache::put(k, v): map[k] = v; sweep(false)
Put(m, thr, k, v) == Sweep(FALSE, [m EXCEPT ![k] = v], thr)

\* a get that never finds the live object
CacheGetNever(m, k) == 0

\* SharedObjectCache::get(k): the live object, or 0 for nullptr
CacheGet(m, k) == IF m[k] # Absent /\ m[k] # Expired THEN m[k] ELSE 0

\* One SharedObjectCache on its own.  Its users take the keys as a ring: a
\* new object is put under the key after the newest one, objects are dropped
\* oldest first, and a put over an expired entry takes the newest expired
\* key; the object put under key k has identity k + 1.
CacheKeys == 0..(MaxKeys - 1)

Before(k) == (k + MaxKeys - 1) % MaxKeys
After(k) == (k + 1) % MaxKeys

AbsentKeys == {k \in CacheKeys : chunk_cache[k] = Absent}
ExpiredKeys == {k \in CacheKeys : chunk_cache[k] = Expired}
LiveKeys == CacheKeys \ (AbsentKeys \cup ExpiredKeys)

\* the key the next new object is put under
NextKey ==
  IF AbsentKeys = CacheKeys THEN 0
  ELSE CHOOSE k \in AbsentKeys : Before(k) \notin AbsentKeys

\* the key of the live object that was put first
OldestLive ==
  IF LiveKeys = CacheKeys THEN 0
  ELSE CHOOSE k \in LiveKeys : Before(k) \notin LiveKeys

\* the key of the entry that expired last
NewestExpired ==
  IF ExpiredKeys = CacheKeys THEN MaxKeys - 1
  ELSE CHOOSE k \in ExpiredKeys : After(k) \notin ExpiredKeys

InitCache ==
  /\ chunk_cache = [k \in CacheKeys |-> Absent]
  /\ size_next_sweep = SweepFloor
  /\ data = <<>> /\ chunk = <<>> /\ alive = FALSE /\ res = "none"
  /\ IdleBitmap /\ IdleAlloc /\ IdleInode /\ IdleNode

\* cache.put(k, v) with v a new object
CachePut(k) ==
  /\ LET p == Put(chunk_cache, size_next_sweep, k, k + 1)
     IN /\ chunk_cache' = p.map
        /\ size_next_sweep' = p.thr
  /\ UNCHANGED <<data, chunk, alive, res, bmVars, allocVars, inodeVars,
                 nodeVars>>

\* cache.put under a key the map does not hold
CachePutNew ==
  /\ AbsentKeys # {}
  /\ CachePut(NextKey)

\* cache.put under a key whose entry has expired
CachePutOver ==
  /\ ExpiredKeys # {}
  /\ CachePut(NewestExpired)

\* the last shared_ptr on the object of a key is dropped: the weak_ptr the
\* map holds expires
CacheExpire ==
  /\ LiveKeys # {}
  /\ chunk_cache' = [chunk_cache EXCEPT ![OldestLive] = Expired]
  /\ UNCHANGED <<size_next_sweep, data, chunk, alive, res, bmVars, allocVars,
                 inodeVars, nodeVars>>

\* cache.sweep(force)
CacheSweep(force) ==
  /\ LET w == Sweep(force, chunk_cache, size_next_sweep)
     IN /\ chunk_cache' = w.map
        /\ size_next_sweep' = w.thr
  /\ UNCHANGED <<data, chunk, alive, res, bmVars, allocVars, inodeVars,
                 nodeVars>>

NextCache ==
  \/ CachePutNew
  \/ CachePutOver
  \/ CacheExpire
  \/ \E force \in BOOLEAN : CacheSweep(force)

SpecCache == InitCache /\ [][NextCache]_vars

(* ------------------------------- Disk ---------------------------------- *)
\* the Chunk objects that exist
Objs == {c \in ObjIds : chunk[c] # NoObj}

\* threads that hold a handle or are inside a Chunk destructor: one per
\* handle, one per object being destroyed
Busy == LET RECURSIVE Sum(_)
            Sum(S) == IF S = {} THEN 0
                      ELSE LET c == CHOOSE x \in S : TRUE
                           IN (IF chunk[c].refs = 0 THEN 1 ELSE chunk[c].refs)
                              + Sum(S \ {c})
        IN Sum(Objs)

\* threads inside a Chunk destructor
Destroying == Cardinality({c \in Objs : chunk[c].refs = 0})

FreeIds == ObjIds \ Objs
NewId == CHOOSE c \in FreeIds : \A d \in FreeIds : c <= d

\* the guard of get_chunk: which indices are rejected
OutOfBounds(idx) == idx > ChunkCount

InitDisk ==
  /\ data = [o \in 0..(SizeBytes - 1) |-> 0]
  /\ chunk = [c \in ObjIds |-> NoObj]
  /\ chunk_cache = [k \in Keys |-> Absent]
  /\ size_next_sweep = SweepFloor
  /\ alive = TRUE
  /\ res = "ok"
  /\ IdleBitmap /\ IdleAlloc /\ IdleInode /\ IdleNode

\* Disk::get_chunk, called by a thread that holds no handle; the whole body
\* runs under Disk::lock
GetChunk(idx) ==
  /\ UNCHANGED <<bmVars, allocVars, inodeVars, nodeVars>>
  /\ alive
  /\ Busy < NThreads
  /\ IF OutOfBounds(idx)
       THEN /\ res' = "OutOfBounds"
            /\ UNCHANGED <<data, chunk, chunk_cache, size_next_sweep, alive>>
       ELSE IF CacheGet(chunk_cache, idx) # 0
         THEN /\ chunk' = [chunk EXCEPT ![CacheGet(chunk_cache, idx)].refs = @ + 1]
              /\ res' = "ok"
              /\ UNCHANGED <<data, chunk_cache, size_next_sweep, alive>>
         ELSE /\ \E d \in [ChunkOffs -> Byte] :
                   \* memcpy from data + idx * chunk_size; a byte past the
                   \* size_bytes() initialised ones is whatever lies there
                   /\ \A o \in ChunkOffs :
                        idx * ChunkSize + o < SizeBytes
                          => d[o] = data[idx * ChunkSize + o]
                   /\ chunk' = [chunk EXCEPT ![NewId] =
                                  [idx |-> idx, data |-> d, refs |-> 1]]
              /\ LET p == Put(chunk_cache, size_next_sweep, idx, NewId)
                 IN /\ chunk_cache' = p.map
                    /\ size_next_sweep' = p.thr
              /\ res' = "ok"
              /\ UNCHANGED <<data, alive>>

\* a thread writes one byte of the Chunk c it holds
WriteByte(c, o, v) ==
  /\ UNCHANGED <<bmVars, allocVars, inodeVars, nodeVars>>
  /\ c \in Objs
  /\ chunk[c].refs > 0
  /\ chunk[c].data[o] # v
  /\ chunk' = [chunk EXCEPT ![c].data[o] = v]
  /\ UNCHANGED <<data, chunk_cache, size_next_sweep, alive, res>>

\* a thread drops its shared_ptr on Chunk c; when it was the last one the
\* weak handles expire at once and the thread enters Chunk::~Chunk
Release(c) ==
  /\ UNCHANGED <<bmVars, allocVars, inodeVars, nodeVars>>
  /\ c \in Objs
  /\ chunk[c].refs > 0
  /\ chunk' = [chunk EXCEPT ![c].refs = @ - 1]
  /\ chunk_cache' = IF chunk[c].refs = 1
                      THEN [k \in Keys |-> IF chunk_cache[k] = c
                                             THEN Expired ELSE chunk_cache[k]]
                      ELSE chunk_cache
  /\ UNCHANGED <<data, size_next_sweep, alive, res>>

\* Disk::flush_chunk(chunk) under Disk::lock: the bytes the memcpy leaves in
\* the chunks of the buffer; what it writes past them is not kept
FlushInto(buf, c) ==
  [off \in DOMAIN buf |->
     IF /\ off >= c.idx * ChunkSize
        /\ off < c.idx * ChunkSize + ChunkSize
       THEN c.data[off - c.idx * ChunkSize]
       ELSE buf[off]]

\* Chunk::~Chunk of object c: parent->flush_chunk(*this), then the object is
\* gone.  On a destroyed Disk the call goes through a dangling parent
\* pointer; the freed buffer is not part of the state any more.
FlushChunk(c) ==
  /\ UNCHANGED <<bmVars, allocVars, inodeVars, nodeVars>>
  /\ c \in Objs
  /\ chunk[c].refs = 0
  /\ data' = IF alive THEN FlushInto(data, chunk[c]) ELSE data
  /\ chunk' = [chunk EXCEPT ![c] = NoObj]
  /\ UNCHANGED <<chunk_cache, size_next_sweep, alive, res>>

\* Disk::try_close under Disk::lock, called by a thread that is not inside a
\* Chunk destructor
TryClose ==
  /\ UNCHANGED <<bmVars, allocVars, inodeVars, nodeVars>>
  /\ alive
  /\ Destroying < NThreads
  /\ LET s == Sweep(TRUE, chunk_cache, size_next_sweep)
     IN /\ chunk_cache' = s.map
        /\ size_next_sweep' = s.thr
        /\ res' = IF CacheSize(s.map) > 0 THEN "StillReferenced" ELSE "ok"
  /\ UNCHANGED <<data, chunk, alive>>

\* Disk::~Disk: an empty body, nothing is checked
DestroyDisk ==
  /\ UNCHANGED <<bmVars, allocVars, inodeVars, nodeVars>>
  /\ alive
  /\ alive' = FALSE
  /\ UNCHANGED <<data, chunk, chunk_cache, size_next_sweep, res>>

NextDisk ==
  \/ \E idx \in ReqIdx : GetChunk(idx)
  \/ \E c \in ObjIds, o \in ChunkOffs, v \in Byte : WriteByte(c, o, v)
  \/ \E c \in ObjIds : Release(c)
  \/ \E c \in ObjIds : FlushChunk(c)
  \/ TryClose
  \/ DestroyDisk

SpecDisk == InitDisk /\ [][NextDisk]_vars

(* ----------------------------- DiskBitMap ------------------------------ *)
\* bit j of byte b, as std::bitset<8>::operator[] and "byte & (1 << j)"
TestBit(b, j) == (b \div (2 ^ j)) % 2 = 1

\* byte |= (1 << j)
SetBit(b, j) == IF TestBit(b, j) THEN b ELSE b + 2 ^ j

\* byte &= ~(1 << j)
ClrBit(b, j) == IF TestBit(b, j) THEN b - 2 ^ j ELSE b

\* a size with one byte of padding only
BmSizeBytesOnePad(sib) == sib \div 8 + 1

\* DiskBitMap::size_bytes()
BmSizeBytes(sib) == sib \div 8 + 2

\* a chunk count without the added chunk
BmSizeChunksExact(sib, cs) == BmSizeBytes(sib) \div cs

\* DiskBitMap::size_chunks() on a Disk whose chunk size is cs
BmSizeChunks(sib, cs) == BmSizeBytes(sib) \div cs + 1

\* DiskBitMap::get_byte_for_idx(idx): chunks[byte_idx / cs]->data[byte_idx % cs]
GetByteForIdx(chs, cs, idx) ==
  LET byte_idx == idx \div 8
  IN chs[byte_idx \div cs][byte_idx % cs]

\* DiskBitMap::get(idx)
BmGet(chs, cs, idx) == TestBit(GetByteForIdx(chs, cs, idx), idx % 8)

\* DiskBitMap::set(idx)
BmSet(chs, cs, idx) ==
  LET byte_idx == idx \div 8
  IN [chs EXCEPT ![byte_idx \div cs][byte_idx % cs] = SetBit(@, idx % 8)]

\* DiskBitMap::clr(idx)
BmClr(chs, cs, idx) ==
  LET byte_idx == idx \div 8
  IN [chs EXCEPT ![byte_idx \div cs][byte_idx % cs] = ClrBit(@, idx % 8)]

\* BitRange::set_range and the loop of clear_all: set(idx) for idx in [from, to)
RECURSIVE SetRange(_, _, _, _)
SetRange(chs, cs, from, to) ==
  IF from >= to THEN chs
  ELSE SetRange(BmSet(chs, cs, from), cs, from + 1, to)

\* the memset loop of clear_all
ZeroChunks(chs) == [c \in DOMAIN chs |-> [o \in DOMAIN chs[c] |-> 0]]

\* a clear_all that only zeroes the chunks
ClearAllNoGuard(chs, cs, sib) == ZeroChunks(chs)

\* DiskBitMap::clear_all(): zero every chunk, then set [size_in_bits, +8)
ClearAll(chs, cs, sib) == SetRange(ZeroChunks(chs), cs, sib, sib + 8)

\* an inner while that never iterates: every run is one bit long
RunLenOne(b, j, k) == k

\* the inner while of bitmap_init_cache: k counts the unset bits from j on.
\* The source tests !byte[j + k] before j + k < 8; at j + k = 8 the test of
\* j + k < 8 fails whatever the read past the bitset gave, so the run ends
\* there on every outcome of that read.
RECURSIVE RunLen(_, _, _)
RunLen(b, j, k) ==
  IF j + k < 8 /\ ~TestBit(b, j + k) THEN RunLen(b, j, k + 1) ELSE k

\* a table whose runs go to the end of the byte without testing the bits
FindUnsetCacheToByteEnd(b) ==
  IF \A j \in 0..7 : TestBit(b, j)
    THEN [start_idx |-> 0, bit_count |-> 0]
    ELSE LET j == CHOOSE x \in 0..7 :
                    /\ ~TestBit(b, x)
                    /\ \A y \in 0..(x - 1) : TestBit(b, y)
         IN [start_idx |-> j, bit_count |-> 8 - j]

\* find_unset_cache[b] as bitmap_init_cache fills it: the first run of unset
\* bits of byte b; entry 255 keeps the default BitRange {0, 0}
FindUnsetCache(b) ==
  IF \A j \in 0..7 : TestBit(b, j)
    THEN [start_idx |-> 0, bit_count |-> 0]
    ELSE LET j == CHOOSE x \in 0..7 :
                    /\ ~TestBit(b, x)
                    /\ \A y \in 0..(x - 1) : TestBit(b, y)
         IN [start_idx |-> j, bit_count |-> RunLen(b, j, 1)]

\* the for loop of find_unset_bits from byte-aligned index idx on, with the
\* run accumulated so far in rv
RECURSIVE ScanFrom(_, _, _, _, _, _)
ScanFrom(chs, cs, sib, len, idx, rv) ==
  IF idx >= sib THEN rv
  ELSE
    LET c == FindUnsetCache(GetByteForIdx(chs, cs, idx))
        r == [start_idx |-> c.start_idx + idx, bit_count |-> c.bit_count]
    IN IF rv.bit_count # 0 /\ r.start_idx # rv.start_idx + rv.bit_count
         THEN rv
         ELSE IF r.bit_count # 0
           THEN LET nrv == IF rv.bit_count = 0
                             THEN r
                             ELSE [rv EXCEPT !.bit_count = @ + r.bit_count]
                IN IF nrv.bit_count >= len
                     THEN nrv
                     ELSE ScanFrom(chs, cs, sib, len, idx + 8, nrv)
           ELSE ScanFrom(chs, cs, sib, len, idx + 8, rv)

\* a search that returns the accumulated run without limiting it to length
FindUnsetBitsUnclamped(chs, cs, sib, len) ==
  ScanFrom(chs, cs, sib, len, 0, [start_idx |-> 0, bit_count |-> 0])

\* DiskBitMap::find_unset_bits(length)
FindUnsetBits(chs, cs, sib, len) ==
  LET rv == ScanFrom(chs, cs, sib, len, 0, [start_idx |-> 0, bit_count |-> 0])
  IN IF rv.bit_count > len THEN [rv EXCEPT !.bit_count = len] ELSE rv

\* DiskBitMap::DiskBitMap over a Disk that was just created: the chunks it
\* checks out hold the zeros the Disk constructor wrote
FreshChunks(sib, cs) ==
  [c \in 0..(BmSizeChunks(sib, cs) - 1) |-> [o \in 0..(cs - 1) |-> 0]]

InitBitmap ==
  /\ size_in_bits \in 0..MaxBits
  /\ chunks = FreshChunks(size_in_bits, ChunkSize)
  /\ retval = NoRange
  /\ length = -1
  /\ IdleDisk /\ IdleAlloc /\ IdleInode /\ IdleNode

\* bitmap.clear_all()
DoClearAll ==
  /\ chunks' = ClearAll(chunks, ChunkSize, size_in_bits)
  /\ retval' = NoRange
  /\ length' = -1
  /\ UNCHANGED <<size_in_bits, diskVars, allocVars, inodeVars, nodeVars>>

\* bitmap.set(idx) on an allocation unit of the bitmap
DoSet(idx) ==
  /\ idx < size_in_bits
  /\ chunks' = BmSet(chunks, ChunkSize, idx)
  /\ retval' = NoRange
  /\ length' = -1
  /\ UNCHANGED <<size_in_bits, diskVars, allocVars, inodeVars, nodeVars>>

\* bitmap.clr(idx) on an allocation unit of the bitmap
DoClr(idx) ==
  /\ idx < size_in_bits
  /\ chunks' = BmClr(chunks, ChunkSize, idx)
  /\ retval' = NoRange
  /\ length' = -1
  /\ UNCHANGED <<size_in_bits, diskVars, allocVars, inodeVars, nodeVars>>

\* bitmap.find_unset_bits(len)
DoFind(len) ==
  /\ retval' = FindUnsetBits(chunks, ChunkSize, size_in_bits, len)
  /\ length' = len
  /\ UNCHANGED <<size_in_bits, chunks, diskVars, allocVars, inodeVars, nodeVars>>

NextBitmap ==
  \/ DoClearAll
  \/ \E idx \in 0..(MaxBits - 1) : DoSet(idx)
  \/ \E idx \in 0..(MaxBits - 1) : DoClr(idx)
  \/ \E len \in 0..MaxLen : DoFind(len)

SpecBitmap == InitBitmap /\ [][NextBitmap]_vars

(* --------------- two threads allocating from one DiskBitMap ------------ *)
\* Each thread runs the allocation sequence: find_unset_bits(1), then
\* BitRange::set_range on what it got.  Neither call takes DiskBitMap::block
\* (no code locks it), so the two steps of one thread interleave with the
\* other thread's.
InitAlloc ==
  /\ size_in_bits \in 1..(MaxBits \div 2)
  /\ chunks = ClearAll(FreshChunks(size_in_bits, ChunkSize), ChunkSize,
                       size_in_bits)
  /\ retval = NoRange
  /\ length = -1
  /\ pc = [t \in Threads |-> "find"]
  /\ range = [t \in Threads |-> NoRange]
  /\ owned = [t \in Threads |-> {}]
  /\ IdleDisk /\ IdleInode /\ IdleNode

\* range = bitmap.find_unset_bits(1); bit_count != 1 means no free bit
AllocFind(t) ==
  /\ pc[t] = "find"
  /\ LET r == FindUnsetBits(chunks, ChunkSize, size_in_bits, 1)
     IN /\ range' = [range EXCEPT ![t] = r]
        /\ pc' = [pc EXCEPT ![t] = IF r.bit_count = 1 THEN "mark" ELSE "full"]
  /\ UNCHANGED <<size_in_bits, chunks, retval, length, owned, diskVars,
                 inodeVars, nodeVars>>

\* range.set_range(bitmap): the bit is now the thread's
AllocMark(t) ==
  /\ pc[t] = "mark"
  /\ chunks' = SetRange(chunks, ChunkSize, range[t].start_idx,
                        range[t].start_idx + range[t].bit_count)
  /\ owned' = [owned EXCEPT ![t] = @ \cup {range[t].start_idx}]
  /\ pc' = [pc EXCEPT ![t] = "find"]
  /\ UNCHANGED <<size_in_bits, retval, length, range, diskVars, inodeVars, nodeVars>>

NextAlloc ==
  \/ \E t \in Threads : AllocFind(t)
  \/ \E t \in Threads : AllocMark(t)

SpecAlloc == InitAlloc /\ [][NextAlloc]_vars

(* ------------------- INodeTable (src/src/filesystem.hpp) --------------- *)
\* The table works on the DiskBitMap that filesystem.hpp itself declares
\* (lines 17-100) for clear_all, size_chunks, get, set and clr.  That
\* declaration leaves find_unset_bits without a body, so the search for a
\* free index is the one of diskinterface.cpp.

\* DiskBitMap::size_bytes() of filesystem.hpp
DraftSizeBytes(sib) == sib \div 8 + 1

\* DiskBitMap::size_chunks() of filesystem.hpp
DraftSizeChunks(sib) == DraftSizeBytes(sib) + 1

\* DiskBitMap::get(idx) of filesystem.hpp
DraftGet(chs, cs, idx) ==
  LET byte_idx == idx \div 8
  IN TestBit(chs[byte_idx \div cs][byte_idx % cs], idx % 8)

\* idx & 8
And8(idx) == IF (idx \div 8) % 2 = 1 THEN 8 ELSE 0

\* DiskBitMap::set(idx) of filesystem.hpp: byte | (1 << (idx & 8)), stored
\* into a Byte, so 1 << 8 is cut off
DraftSet(chs, cs, idx) ==
  LET byte_idx == idx \div 8
  IN [chs EXCEPT ![byte_idx \div cs][byte_idx % cs] =
        IF And8(idx) = 0 THEN SetBit(@, 0) ELSE @]

\* DiskBitMap::clr(idx) of filesystem.hpp: byte & ~(1 << (idx & 8))
DraftClr(chs, cs, idx) ==
  LET byte_idx == idx \div 8
  IN [chs EXCEPT ![byte_idx \div cs][byte_idx % cs] =
        IF And8(idx) = 0 THEN ClrBit(@, 0) ELSE @]

\* INodeTable::inodes_per_chunk
InodesPerChunk == InodeChunkSize \div SizeofINode

\* the chunks of the Disk the model keeps: the inode table region and what
\* lies before it
IDiskChunks == InodeTableOffset + InodeTableSizeChunks

\* values an uninitialised byte is given
GarbageBytes == {0, 255}

\* the bytes of the INode that set_inode declares locally ("INode node;") and
\* copies out: every field has a zero initialiser except the superblock
\* pointer, the last 8 bytes, which is left uninitialised
LocalINodeBytes(g) ==
  [o \in 0..(SizeofINode - 1) |-> IF o >= SizeofINode - 8 THEN g ELSE 0]

\* used_inodes->chunks: the Chunks of inode_table_offset + j, which the bitmap
\* holds for its lifetime and so shares with every other get_chunk of them
UsedChunks(d) ==
  [j \in 0..(DraftSizeChunks(size_in_bits) - 1) |-> d[InodeTableOffset + j]]

\* the Disk bytes after the bitmap's chunks took the values chs
WithUsedChunks(d, chs) ==
  [c \in DOMAIN d |->
     IF c >= InodeTableOffset /\ c - InodeTableOffset \in DOMAIN chs
       THEN chs[c - InodeTableOffset] ELSE d[c]]

\* an inode record a caller passes to set_inode, as the bytes of the INode:
\* UID = uid (little-endian, first byte), every other field zero, the
\* superblock pointer null
INodeBytes(uid) ==
  [o \in 0..(SizeofINode - 1) |-> IF o = 0 THEN uid ELSE 0]

Records == {INodeBytes(uid) : uid \in 1..MaxUID}

\* chunk_idx of get_inode and set_inode: the chunk they pass to get_chunk
RecordChunk(idx) == idx \div InodesPerChunk

\* the get_chunk + memcpy of get_inode: the record of idx is read from chunk
\* idx / inodes_per_chunk, byte sizeof(INode) * (idx % inodes_per_chunk)
ReadRecord(d, idx) ==
  LET chunk_idx == RecordChunk(idx)
      base == SizeofINode * (idx % InodesPerChunk)
  IN [o \in 0..(SizeofINode - 1) |-> d[chunk_idx][base + o]]

\* the get_chunk + memcpy of set_inode: the record of idx is written at
\* chunk idx / inodes_per_chunk, byte sizeof(INode) * (idx % inodes_per_chunk)
WriteRecord(d, idx, bytes) ==
  LET chunk_idx == RecordChunk(idx)
      base == SizeofINode * (idx % InodesPerChunk)
  IN [d EXCEPT ![chunk_idx] =
        [o \in DOMAIN @ |->
           IF o >= base /\ o < base + SizeofINode THEN bytes[o - base]
                                                   ELSE @[o]]]

\* the body of set_inode past its range check
SetInodeBody(d, idx, g) ==
  WriteRecord(WithUsedChunks(d, DraftSet(UsedChunks(d), InodeChunkSize, idx)),
              idx, LocalINodeBytes(g))

\* INodeTable::INodeTable over a Disk that was just created.  The bitmap is
\* constructed from inode_count before inode_count is computed, and the
\* constructor of filesystem.hpp stores no size_in_bits at all: the field is
\* indeterminate (0 if the argument is stored).
InitInode ==
  /\ size_in_bits \in 0..MaxBits
  /\ inode_count =
       InodesPerChunk * InodeTableSizeChunks - DraftSizeChunks(size_in_bits)
  /\ idisk = [c \in 0..(IDiskChunks - 1) |->
                [o \in 0..(InodeChunkSize - 1) |-> 0]]
  /\ iret = NoCall
  /\ lastop = [i \in 0..(inode_count - 1) |-> "none"]
  /\ freed = -1
  /\ chunks = <<>> /\ retval = NoRange /\ length = -1
  /\ IdleDisk /\ IdleAlloc /\ IdleNode

\* INodeTable::format_inode_table(): used_inodes->clear_all() of filesystem.hpp
FormatInodeTable ==
  /\ idisk' = WithUsedChunks(idisk, ZeroChunks(UsedChunks(idisk)))
  /\ iret' = [op |-> "format", idx |-> -1, res |-> "ok", rec |-> NoRec]
  /\ lastop' = [i \in DOMAIN lastop |-> "format"]
  /\ freed' = -1
  /\ UNCHANGED <<inode_count, bmVars, diskVars, allocVars, nodeVars>>

\* INodeTable::set_inode(idx, node) called with the record r.  The body
\* declares its own "INode node;", which is the one it copies out: r is
\* never read.
SetInode(idx, r) ==
  /\ IF idx >= inode_count
       THEN /\ iret' = [op |-> "set", idx |-> idx, res |-> "OutOfRange",
                        rec |-> r]
            /\ UNCHANGED <<idisk, lastop>>
       ELSE /\ \E g \in GarbageBytes : idisk' = SetInodeBody(idisk, idx, g)
            /\ iret' = [op |-> "set", idx |-> idx, res |-> "ok", rec |-> r]
            /\ lastop' = [lastop EXCEPT ![idx] = "set"]
  /\ UNCHANGED <<inode_count, freed, bmVars, diskVars, allocVars, nodeVars>>

\* INodeTable::free_inode(idx)
FreeInode(idx) ==
  /\ IF idx >= inode_count
       THEN /\ iret' = [op |-> "free", idx |-> idx, res |-> "OutOfRange",
                        rec |-> NoRec]
            /\ UNCHANGED <<idisk, lastop, freed>>
       ELSE /\ idisk' = WithUsedChunks(idisk,
                          DraftClr(UsedChunks(idisk), InodeChunkSize, idx))
            /\ iret' = [op |-> "free", idx |-> idx, res |-> "ok", rec |-> NoRec]
            /\ lastop' = [lastop EXCEPT ![idx] = "free"]
            /\ freed' = idx
  /\ UNCHANGED <<inode_count, bmVars, diskVars, allocVars, nodeVars>>

\* INodeTable::get_inode(idx): which of its three exits it takes, and the
\* record it returns
GetInode(idx) ==
  /\ iret' = IF idx >= inode_count
               THEN [op |-> "get", idx |-> idx, res |-> "OutOfRange",
                     rec |-> NoRec]
             ELSE IF ~DraftGet(UsedChunks(idisk), InodeChunkSize, idx)
               THEN [op |-> "get", idx |-> idx, res |-> "NotInUse",
                     rec |-> NoRec]
               ELSE [op |-> "get", idx |-> idx, res |-> "ok",
                     rec |-> ReadRecord(idisk, idx)]
  /\ UNCHANGED <<idisk, inode_count, lastop, freed, bmVars, diskVars,
                 allocVars, nodeVars>>

\* allocation of an inode: used_inodes->find_unset_bits(1), then set_inode on
\* the index found; a bit_count other than 1 means no free index
AllocInode ==
  /\ LET r == FindUnsetBits(UsedChunks(idisk), InodeChunkSize, size_in_bits, 1)
     IN IF r.bit_count # 1
          THEN /\ iret' = [op |-> "alloc", idx |-> r.start_idx, res |-> "Full",
                           rec |-> NoRec]
               /\ UNCHANGED <<idisk, lastop>>
          ELSE IF r.start_idx >= inode_count
            THEN /\ iret' = [op |-> "alloc", idx |-> r.start_idx,
                             res |-> "OutOfRange", rec |-> NoRec]
                 /\ UNCHANGED <<idisk, lastop>>
            ELSE /\ \E g \in GarbageBytes :
                      idisk' = SetInodeBody(idisk, r.start_idx, g)
                 /\ iret' = [op |-> "alloc", idx |-> r.start_idx, res |-> "ok",
                             rec |-> NoRec]
                 /\ lastop' = [lastop EXCEPT ![r.start_idx] = "set"]
  /\ freed' = -1
  /\ UNCHANGED <<inode_count, bmVars, diskVars, allocVars, nodeVars>>

NextInode ==
  \/ FormatInodeTable
  \/ \E idx \in 0..inode_count, r \in Records : SetInode(idx, r)
  \/ \E idx \in 0..inode_count : FreeInode(idx)
  \/ \E idx \in 0..inode_count : GetInode(idx)
  \/ AllocInode

SpecInode == InitInode /\ [][NextInode]_vars

(* ---------------------- INode (src/src/filesystem.hpp) ----------------- *)
\* chunk_number of INode::read
ChunkNumber(off) == off \div InodeChunkSize

\* byte_offset of INode::read
ByteOffset(off) == off % InodeChunkSize

\* the branch INode::read takes: "if (chunk_number < 8)", "else if
\* (chunk_number < 8 + chunk_size / sizeof(uint64_t))", or neither
ReadTier(off) ==
  IF ChunkNumber(off) < 8 THEN "direct"
  ELSE IF ChunkNumber(off) < 8 + InodeChunkSize \div 8 THEN "indirect"
  ELSE "none"

\* the starting offsets read is called with: the first and the last byte of
\* each chunk of the file, and of the chunk after its last
ReadOffsets ==
  {c * InodeChunkSize + b : c \in 0..MaxFileChunks,
                            b \in {0, InodeChunkSize - 1}}

\* an INode whose file of k chunks has addresses in the direct tier only
DirectOnlyINode(k) ==
  [file_size |-> k * InodeChunkSize,
   direct_addresses |-> [i \in 0..7 |-> IF i < k THEN i + 1 ELSE 0],
   indirect_addresses |-> 0,
   double_indirect_addresses |-> 0]

InitNode ==
  /\ node \in {DirectOnlyINode(k) : k \in 0..MaxFileChunks}
  /\ nret = NoRead
  /\ IdleDisk /\ IdleBitmap /\ IdleAlloc /\ IdleInode

\* INode::read(starting_offset, buf, n): both branches are empty and the
\* function ends without a return statement, so no field of the INode and no
\* byte of buf is written and the value the caller receives is indeterminate
Read(off, n) ==
  /\ \E r \in {0, n} :
       nret' = [off |-> off, n |-> n, tier |-> ReadTier(off), ret |-> r]
  /\ UNCHANGED <<node, diskVars, bmVars, allocVars, inodeVars>>

NextNode ==
  \E off \in ReadOffsets, n \in {1, InodeChunkSize} : Read(off, n)

SpecNode == InitNode /\ [][NextNode]_vars

(* ============================ properties =============================== *)
Min(a, b) == IF a < b THEN a ELSE b

\* the Chunk objects some caller holds a handle on
HeldObjs == {c \in Objs : chunk[c].refs > 0}

\* C1: for every valid chunk index, all handles held at the same moment refer
\* to one Chunk object: no two held Chunks have the same index, and the held
\* Chunk of an index is the one the cache hands to the next get_chunk.
C1_OneHeldChunkPerIndex ==
  /\ \A c1, c2 \in HeldObjs :
       (chunk[c1].idx < ChunkCount /\ chunk[c1].idx = chunk[c2].idx) => c1 = c2
  /\ \A c \in HeldObjs :
       chunk[c].idx < ChunkCount => chunk_cache[chunk[c].idx] = c

\* every thread holds a handle on the same Chunk of a valid index, and the
\* Chunk carries a write that has not reached the backing buffer
C1_Witness ==
  \E c \in HeldObjs :
    /\ chunk[c].idx < ChunkCount
    /\ chunk[c].refs = NThreads
    /\ \E o \in ChunkOffs : chunk[c].data[o] # data[chunk[c].idx * ChunkSize + o]

\* C2: a get_chunk(idx) made once every reference to the Chunk of idx has been
\* released returns a Chunk holding the bytes that Chunk had, and the
\* write-back of a Chunk changes the bytes of its own index only.
C2_FlushOnReleaseRoundTrip ==
  [][/\ \A idx \in 0..(ChunkCount - 1) :
          (GetChunk(idx) /\ CacheGet(chunk_cache, idx) = 0)
            => \A x \in Objs :
                 (chunk[x].idx = idx /\ chunk[x].refs = 0)
                   => chunk'[NewId].data = chunk[x].data
     /\ \A c \in Objs :
          (FlushChunk(c) /\ alive /\ chunk[c].idx < ChunkCount)
            => \A off \in 0..(SizeBytes - 1) :
                 data'[off] =
                   IF off \div ChunkSize = chunk[c].idx
                     THEN chunk[c].data[off % ChunkSize]
                     ELSE data[off]]_vars

\* C3: get_chunk(idx) with idx >= chunk_count creates no Chunk and no cache
\* entry: no Chunk object and no cache key has an index >= chunk_count.
C3_NoChunkAtOrPastChunkCount ==
  /\ \A c \in Objs : chunk[c].idx < ChunkCount
  /\ \A k \in Keys : k >= ChunkCount => chunk_cache[k] = Absent

\* C4: try_close fails with StillReferenced exactly when some Chunk is held;
\* it removes the expired cache entries and nothing else: every live entry,
\* every Chunk, every handle and the backing buffer stay as they were.
C4_TryCloseChecksOnly ==
  [][TryClose =>
       /\ (res' = "StillReferenced") <=> (HeldObjs # {})
       /\ (res' = "ok") <=> (HeldObjs = {})
       /\ \A k \in Keys :
            chunk_cache'[k] =
              IF chunk_cache[k] = Expired THEN Absent ELSE chunk_cache[k]
       /\ \A c \in HeldObjs : chunk_cache'[chunk[c].idx] = c
       /\ UNCHANGED <<chunk, data>>]_vars

\* try_close has failed while one Chunk is held and another, already released,
\* still waits for its write-back: the expired entry is gone, the live one kept
C4_Witness ==
  /\ res = "StillReferenced"
  /\ HeldObjs # {}
  /\ \E c \in Objs : chunk[c].refs = 0
  /\ \A k \in Keys : chunk_cache[k] # Expired

\* C5: no Chunk (held, or released with its flush still to run) exists once
\* its Disk has been destroyed.
C5_NoChunkOutlivesDisk ==
  Objs # {} => alive

\* the state of the bitmap as the last find_unset_bits call saw it
Found == length # -1
AllUnset == \A i \in 0..(size_in_bits - 1) : ~BmGet(chunks, ChunkSize, i)
GuardSet ==
  \A i \in size_in_bits..(size_in_bits + 7) : BmGet(chunks, ChunkSize, i)
OnlySetBit(k) ==
  \A i \in 0..(size_in_bits - 1) : BmGet(chunks, ChunkSize, i) <=> (i = k)

\* C6 as stated: on every bitmap whose N bits are all unset,
\* find_unset_bits(length) returns {0, min(length, N)}.
C6_AllZeroAnyBitmap ==
  (Found /\ AllUnset)
    => retval = [start_idx |-> 0, bit_count |-> Min(length, size_in_bits)]

\* C6 amended: on a bitmap whose N bits are all unset and whose guard bits
\* [N, N+8) are set (the state clear_all leaves), find_unset_bits(length)
\* returns {0, min(length, N)}.
C6_AllZeroFormatted ==
  (Found /\ AllUnset /\ GuardSet)
    => retval = [start_idx |-> 0, bit_count |-> Min(length, size_in_bits)]

\* a cleared bitmap of more than one byte whose size is no multiple of 8 was
\* asked for more bits than it has, and returned all of them
C6_Witness ==
  /\ Found /\ AllUnset /\ GuardSet
  /\ size_in_bits > 8 /\ size_in_bits % 8 # 0
  /\ length > size_in_bits
  /\ retval = [start_idx |-> 0, bit_count |-> size_in_bits]

\* C7 as stated: with bit k the only set bit, for every 0 <= k < length, the
\* returned run stops exactly at k and has bit_count = k.
C7_SingleSetBitAnyK ==
  Found =>
    \A k \in 0..(size_in_bits - 1) :
      (OnlySetBit(k) /\ k < length)
        => /\ retval.bit_count = k
           /\ retval.start_idx + retval.bit_count = k

\* C7 amended: with bit k the only set bit, for every 0 < k < length, the
\* returned run is {0, k}: it stops exactly at k.
C7_SingleSetBitPositiveK ==
  Found =>
    \A k \in 1..(size_in_bits - 1) :
      (OnlySetBit(k) /\ k < length)
        => retval = [start_idx |-> 0, bit_count |-> k]

\* the only set bit lies in the second byte and the run returned ends at it
C7_Witness ==
  /\ Found
  /\ \E k \in 9..(size_in_bits - 1) :
       /\ OnlySetBit(k) /\ k < length
       /\ retval = [start_idx |-> 0, bit_count |-> k]

\* C8: no interleaving of two allocating threads gives both the same bit.
C8_NoDoubleAllocation ==
  \A t1, t2 \in Threads : t1 # t2 => owned[t1] \cap owned[t2] = {}

\* the inodes whose last format/set/free was a set: the ones in use
InUse == {i \in DOMAIN lastop : lastop[i] = "set"}

\* C9: on a table that has been formatted, every allocation made while fewer
\* than inode_count inodes are in use succeeds with an index < inode_count that is not in use, and when the one
\* free inode is the one free_inode just released, the allocation returns it.
C9_DistinctAllocationsFirstFit ==
  [][(AllocInode /\ \A i \in DOMAIN lastop : lastop[i] # "none") =>
       /\ Cardinality(InUse) < inode_count =>
            /\ iret'.res = "ok"
            /\ iret'.idx < inode_count
            /\ iret'.idx \notin InUse
       /\ (freed # -1 /\ InUse = DOMAIN lastop \ {freed}) => iret'.idx = freed]_vars

\* C10: get_inode(idx) fails with OutOfRange iff idx >= inode_count, with
\* NotInUse iff idx < inode_count and the last of format/set_inode/free_inode
\* on idx was no set_inode, and succeeds otherwise; set_inode and free_inode
\* with idx >= inode_count fail with OutOfRange.
C10_GetInodeOutcome ==
  /\ iret.op = "get" =>
       iret.res = IF iret.idx >= inode_count THEN "OutOfRange"
                  ELSE IF lastop[iret.idx] # "set" THEN "NotInUse" ELSE "ok"
  /\ iret.op \in {"set", "free"} =>
       (iret.res = "OutOfRange" <=> iret.idx >= inode_count)

\* C11: for every idx < inode_count and every record r, the get_inode(idx)
\* that follows set_inode(idx, r) succeeds and returns a record equal to r;
\* and set_inode(idx, r) leaves the record stored at every other index as it
\* was.
C11_SetGetRoundTrip ==
  [][/\ \A idx \in 0..(inode_count - 1) :
          (GetInode(idx) /\ iret.op = "set" /\ iret.idx = idx)
            => (iret'.res = "ok" /\ iret'.rec = iret.rec)
     /\ \A idx \in 0..(inode_count - 1), r \in Records :
          SetInode(idx, r)
            => \A j \in 0..(inode_count - 1) :
                 j # idx => ReadRecord(idisk', j) = ReadRecord(idisk, j)]_vars

\* the chunks of the inode table that follow the usage bitmap's chunks
IListChunks ==
  (InodeTableOffset + DraftSizeChunks(size_in_bits))
    ..(InodeTableOffset + InodeTableSizeChunks - 1)

\* the chunks the usage bitmap lives in
UsedInodesChunks ==
  InodeTableOffset..(InodeTableOffset + DraftSizeChunks(size_in_bits) - 1)

\* C12: for every idx < inode_count, set_inode(idx, r) writes its record into
\* a chunk of the inode table that follows the usage bitmap's chunks, and
\* changes no byte of any other chunk except the byte of the usage bit of
\* idx; get_inode(idx) reads its record from that same chunk.
C12_RecordsOnlyInInodeList ==
  [][/\ \A idx \in 0..(inode_count - 1), r \in Records :
          SetInode(idx, r)
            => /\ RecordChunk(idx) \in IListChunks
               /\ \A c \in DOMAIN idisk \ IListChunks :
                    \A o \in DOMAIN idisk[c] :
                      idisk'[c][o] # idisk[c][o]
                        => /\ c \in UsedInodesChunks
                           /\ (c - InodeTableOffset) * InodeChunkSize + o
                                = idx \div 8
     /\ \A idx \in 0..(inode_count - 1) :
          (GetInode(idx) /\ iret'.res = "ok")
            => /\ RecordChunk(idx) \in IListChunks
               /\ iret'.rec = ReadRecord(idisk, idx)]_vars

\* C13: on an INode with addresses in the direct tier only, a read at an
\* offset within 8 * chunk_size leaves the indirect and double-indirect
\* pointers zero; a read at an offset beyond 8 * chunk_size, within the file
\* size, leaves a previously-zero indirect pointer non-zero.
C13_ReadIndirection ==
  /\ (nret # NoRead /\ nret.off < 8 * InodeChunkSize)
       => (node.indirect_addresses = 0 /\ node.double_indirect_addresses = 0)
  /\ (nret # NoRead /\ nret.off >= 8 * InodeChunkSize
                    /\ nret.off < node.file_size)
       => node.indirect_addresses # 0

\* the number of backing chunks the DiskBitMap checked out when constructed
BackingChunks == Cardinality(DOMAIN chunks)

\* C14 as stated: size_bytes() equals size_in_bits / 8 + 1 for every
\* size_in_bits, and the bitmap holds size_chunks() backing chunks, derived
\* from that value and the chunk size.
C14_SizeBytesOnePad ==
  /\ BmSizeBytes(size_in_bits) = size_in_bits \div 8 + 1
  /\ BackingChunks = (size_in_bits \div 8 + 1) \div ChunkSize + 1

\* C14 amended: size_bytes() equals size_in_bits / 8 + 2 for every
\* size_in_bits, and the bitmap holds size_chunks() = size_bytes() /
\* chunk_size + 1 backing chunks.
C14_SizeBytesTwoPad ==
  /\ BmSizeBytes(size_in_bits) = size_in_bits \div 8 + 2
  /\ BmSizeChunks(size_in_bits, ChunkSize)
       = (size_in_bits \div 8 + 2) \div ChunkSize + 1
  /\ BackingChunks = (size_in_bits \div 8 + 2) \div ChunkSize + 1

\* a bitmap of more than 8 bits, no multiple of 8, has been constructed and
\* cleared: its guard bits lie in the byte after the last nominal one
C14_Witness ==
  /\ size_in_bits > 8 /\ size_in_bits % 8 # 0
  /\ GuardSet
  /\ BackingChunks = BmSizeChunks(size_in_bits, ChunkSize)
  /\ (size_in_bits + 7) \div 8 = BmSizeBytes(size_in_bits) - 1

\* the span find_unset_bits scans: the bits of the bytes at idx = 0, 8, ...
\* below size_in_bits
ScannedSpan == 8 * ((size_in_bits + 7) \div 8)

Unset(i) == ~BmGet(chunks, ChunkSize, i)

\* the run of consecutive unset bits of the scanned span that begins at s
MaximalRun(s) ==
  Cardinality({e \in s..(ScannedSpan - 1) : \A i \in s..e : Unset(i)})

\* C15: for every bitmap content and every length >= 1, find_unset_bits
\* returns bit_count = 0 iff the scanned span has no unset bit; otherwise
\* start_idx is the lowest unset index of the span, every bit of the range is
\* unset, and bit_count = min(length, length of the maximal run of unset
\* bits beginning at start_idx).
C15_FirstMaximalRun ==
  (Found /\ length >= 1) =>
    /\ retval.bit_count = 0 <=> (\A i \in 0..(ScannedSpan - 1) : ~Unset(i))
    /\ retval.bit_count # 0 =>
         /\ Unset(retval.start_idx)
         /\ \A i \in 0..(retval.start_idx - 1) : ~Unset(i)
         /\ \A i \in retval.start_idx..(retval.start_idx + retval.bit_count - 1) :
              Unset(i)
         /\ retval.bit_count = Min(length, MaximalRun(retval.start_idx))

\* a run that starts inside the first byte, runs across the byte boundary
\* and is ended by a set bit before the requested length was reached
C15_Witness ==
  /\ Found /\ length >= 1
  /\ retval.start_idx > 0 /\ retval.start_idx < 8
  /\ retval.start_idx + retval.bit_count > 8
  /\ retval.bit_count < length
  /\ retval.start_idx + retval.bit_count < size_in_bits

\* C16: clear_all sets the guard bits [size_in_bits, size_in_bits + 8); once
\* set they stay set through every set(i) / clr(i) with i < size_in_bits
\* and every find_unset_bits; and on such a bitmap the range find_unset_bits
\* returns ends at or before size_in_bits, for every size_in_bits.
C16_GuardBitsBoundTheSearch ==
  [][/\ DoClearAll => GuardSet'
     /\ GuardSet => GuardSet'
     /\ (GuardSet' /\ Found')
          => retval'.start_idx + retval'.bit_count <= size_in_bits]_vars

\* on a cleared bitmap whose size is no multiple of 8, after a set, the search
\* was asked for more bits than remain and returned the run that ends
\* exactly at size_in_bits
C16_Witness ==
  /\ Found /\ GuardSet
  /\ size_in_bits % 8 # 0
  /\ retval.start_idx > 0
  /\ retval.bit_count < length
  /\ retval.start_idx + retval.bit_count = size_in_bits

\* set(i), clr(i) and get(i) of the DiskBitMap of diskinterface.hpp: set(i)
\* makes get(i) true, clr(i) makes it false, and each leaves every other bit
\* of every backing chunk as it was
DiskBitMapSetClrOneBit ==
  \A i \in 0..(size_in_bits + 7) :
    /\ BmGet(BmSet(chunks, ChunkSize, i), ChunkSize, i)
    /\ ~BmGet(BmClr(chunks, ChunkSize, i), ChunkSize, i)
    /\ \A j \in 0..(8 * BmSizeBytes(size_in_bits) - 1) :
         j # i =>
           /\ BmGet(BmSet(chunks, ChunkSize, i), ChunkSize, j)
                = BmGet(chunks, ChunkSize, j)
           /\ BmGet(BmClr(chunks, ChunkSize, i), ChunkSize, j)
                = BmGet(chunks, ChunkSize, j)

\* C17: for every bit index i of a DiskBitMap, here the usage bitmap of the
\* INodeTable with the get / set / clr of filesystem.hpp: set(i) makes get(i)
\* true, clr(i) makes get(i) false, and each leaves every bit other than bit
\* i % 8 of byte i / 8 as it was.
C17_SetClrExactlyOneBit ==
  LET u == UsedChunks(idisk)
      cs == InodeChunkSize
  IN \A i \in 0..(inode_count - 1) :
       /\ DraftGet(DraftSet(u, cs, i), cs, i)
       /\ ~DraftGet(DraftClr(u, cs, i), cs, i)
       /\ \A j \in 0..(8 * DraftSizeBytes(size_in_bits) - 1) :
            j # i =>
              /\ DraftGet(DraftSet(u, cs, i), cs, j) = DraftGet(u, cs, j)
              /\ DraftGet(DraftClr(u, cs, i), cs, j) = DraftGet(u, cs, j)

\* the step leaves the map m with a sweep run over it: the expired entries
\* removed, every other entry kept, the threshold max(16, size after it)
SweepRan(m) ==
  /\ chunk_cache' = [k \in DOMAIN m |-> IF m[k] = Expired THEN Absent ELSE m[k]]
  /\ size_next_sweep' = IF CacheSize(chunk_cache') < 16
                          THEN 16 ELSE CacheSize(chunk_cache')

\* the step leaves the map m and the threshold as they are
NoSweep(m) ==
  /\ chunk_cache' = m
  /\ size_next_sweep' = size_next_sweep

\* what put(k, v) and sweep(force) do when a put sweeps a map of size n
\* under threshold thr exactly if Sweeps(n, thr)
SweepThreshold(Sweeps(_, _)) ==
  /\ \A k \in CacheKeys :
       (CachePut(k) /\ (CachePutNew \/ CachePutOver)) =>
         LET m == [chunk_cache EXCEPT ![k] = k + 1]
         IN IF Sweeps(CacheSize(m), size_next_sweep)
              THEN SweepRan(m) ELSE NoSweep(m)
  /\ CacheSweep(FALSE) =>
       /\ CacheSize(chunk_cache) < size_next_sweep => NoSweep(chunk_cache)
       /\ CacheSize(chunk_cache) > size_next_sweep => SweepRan(chunk_cache)
  /\ CacheSweep(TRUE) => SweepRan(chunk_cache)
  /\ size_next_sweep' >= 16

GrownPast(n, thr) == n > thr
GrownTo(n, thr) == n >= thr

\* C18 as stated: the threshold starts at 16 and is always >= 16; a put
\* sweeps only once the map has grown past the threshold (size > threshold);
\* a sweep without force below the threshold changes nothing; a sweep that
\* runs removes all expired entries, keeps every live one and sets the
\* threshold to max(16, map size after the sweep).
C18_SweepPastThreshold ==
  /\ size_next_sweep = 16
  /\ [][SweepThreshold(GrownPast)]_vars

\* C18 amended: as above, with a put sweeping once the map has grown to the
\* threshold (size >= threshold).
C18_SweepAtThreshold ==
  /\ size_next_sweep = 16
  /\ [][SweepThreshold(GrownTo)]_vars

\* a sweep has left more than 16 live entries and raised the threshold to
\* their number, and an entry has expired since
C18_Witness ==
  /\ DOMAIN chunk_cache = CacheKeys
  /\ size_next_sweep > 16
  /\ CacheSize(chunk_cache) >= size_next_sweep
  /\ ExpiredKeys # {}

\* the Chunks whose last reference is released and whose write-back has not
\* run yet
PendingFlush == {c \in Objs : chunk[c].refs = 0}

\* C19: no get_chunk(idx) copies a Chunk from the backing buffer while the
\* flush of an earlier Chunk of idx is pending, so a Chunk of a valid index
\* never exists next to an earlier one still to be written back, and no
\* write-back stores bytes older than the ones the buffer holds: a flush of
\* a Chunk of idx never runs while another Chunk of idx exists.
C19_NoCheckoutDuringPendingFlush ==
  [][/\ \A idx \in 0..(ChunkCount - 1) :
          (GetChunk(idx) /\ CacheGet(chunk_cache, idx) = 0)
            => ~\E x \in PendingFlush : chunk[x].idx = idx
     /\ \A c \in PendingFlush :
          (FlushChunk(c) /\ chunk[c].idx < ChunkCount)
            => ~\E x \in Objs \ {c} : chunk[x].idx = chunk[c].idx]_vars

\* C20: for every size_in_bits and every chunk size, the byte of every bit
\* index in [0, size_in_bits + 8) has a byte index < size_bytes() and lies in
\* one of the size_chunks() backing chunks; in the bitmap as constructed it
\* is a byte of a chunk the bitmap holds.
C20_AddressedBytesInBounds ==
  \A i \in 0..(size_in_bits + 7) :
    LET byte_idx == i \div 8
    IN /\ byte_idx < BmSizeBytes(size_in_bits)
       /\ \A cs \in 1..MaxChunkSize :
            byte_idx \div cs < BmSizeChunks(size_in_bits, cs)
       /\ byte_idx \div ChunkSize \in DOMAIN chunks
       /\ byte_idx % ChunkSize \in DOMAIN chunks[byte_idx \div ChunkSize]

\* a cleared bitmap of more than 8 bits, no multiple of 8, with every nominal
\* bit set since: get, set, clear_all and find_unset_bits have addressed
\* every byte up to the one of the last guard bit, and the search found
\* nothing
C20_Witness ==
  /\ GuardSet
  /\ size_in_bits > 8 /\ size_in_bits % 8 # 0
  /\ Found /\ length >= 1
  /\ retval.bit_count = 0
  /\ \A i \in 0..(size_in_bits + 7) : BmGet(chunks, ChunkSize, i)

====
